---- MODULE Spec2Model ----
(***************************************************************************)
(* Crew schedule optimizer of AeroShed-AI (src/screen2.py).                *)
(*                                                                         *)
(* optimize_schedule builds a CP-SAT model over boolean decisions          *)
(* assignments[(f_idx, c_idx)], hands it to the OR-Tools solver with a     *)
(* 10 second limit, and extracts a solution list and a stats dictionary.   *)
(*                                                                         *)
(* Times (start, duration, max_duty, min_rest) are hours in the source.    *)
(* Here they are integers counting thousandths of an hour, so that values  *)
(* that are not multiples of 0.01 h can be written: 1.009 h is 1009.       *)
(* int(v * 100) of the source is then the truncating division by 10.       *)
(* The values used below (1.0, 1.009, 2.0, 1.005, 9.0) are values for     *)
(* which the IEEE-754 product v * 100 truncates to the same integer as the *)
(* exact product does.                                                     *)
(***************************************************************************)
EXTENDS Integers, Sequences, FiniteSets, TLC

\* Largest number of flights and of crews of an instance.
MaxNumFlights == 2
MaxNumCrews == 2

\* Crews available (identifiers, in the order of the source).
CREWS == <<"C01", "C02", "C03", "C04", "C05", "C06", "C07", "C08", "C09">>

\* Identifiers of the flights, in the order of the source's FLIGHTS.
FlightIds == <<"F101", "F102", "F203", "F204", "F305", "F108">>

\* start / duration / priority of the flights an instance is drawn from.
FlightPool ==
    { [start |-> 6000, duration |-> 1000, priority |-> 1],
      [start |-> 6000, duration |-> 2000, priority |-> 1],
      [start |-> 7000, duration |-> 2000, priority |-> 2],
      [start |-> 8500, duration |-> 1009, priority |-> 1] }

MaxDutySet == {1005, 9000}
MinRestSet == {0, 500}
MaxFlightsSet == {1, 4}

VARIABLES
    flights,        \* argument: sequence of [id, start, duration, priority]
    crews,          \* argument: sequence of crew identifiers
    max_duty,       \* argument
    min_rest,       \* argument
    max_flights,    \* argument
    pc,             \* "ready" before a call has returned, "returned" after
    cp_status,      \* status returned by solver.Solve of the last call
    values,         \* solver.Value of every decision of the last call
    solution,       \* first component of the last call's return value
    stats,          \* second component of the last call's return value
    previous,       \* history: solver status and objective value of the
                    \* latest earlier call that found an assignment
    optimized_solution,   \* st.session_state.optimized_solution
    optimization_stats,   \* st.session_state.optimization_stats
    solved_max_duty,      \* history: max_duty of the call whose result is
                          \* held in the session state
    rendered,             \* what the last run of the page script displayed
    loaded_models,            \* risk page: the predictions whose model
                              \* files were found and loaded
    model,                    \* risk page: the selected radio option
    weather_delay_result,     \* st.session_state.weather_delay_result
    crew_sickness_result,     \* st.session_state.crew_sickness_result
    equipment_failure_result, \* st.session_state.equipment_failure_result
    emergency_landing_result, \* st.session_state.emergency_landing_result
    copilot_response,         \* st.session_state.copilot_response
    last_question,            \* st.session_state.last_question
    risk_rendered,            \* what the last run of the risk page displayed
    clicked,                  \* history: the button of the latest click
    ran                       \* history: the predictions 'Run Prediction'
                              \* was clicked for

\* The state of the risk page: loaded models, widgets, session state,
\* display and history.
risk_vars == <<loaded_models, model, weather_delay_result,
               crew_sickness_result, equipment_failure_result,
               emergency_landing_result, copilot_response, last_question,
               risk_rendered, clicked, ran>>

vars == <<flights, crews, max_duty, min_rest, max_flights,
          pc, cp_status, values, solution, stats, previous,
          optimized_solution, optimization_stats, solved_max_duty, rendered,
          risk_vars>>

args == <<flights, crews, max_duty, min_rest, max_flights>>

\* The state of the optimizer page (session state and display).
page_vars == <<optimized_solution, optimization_stats, solved_max_duty,
               rendered>>

----------------------------------------------------------------------------
(* Helpers *)

RECURSIVE SumSeq(_)
SumSeq(s) == IF s = <<>> THEN 0 ELSE Head(s) + SumSeq(Tail(s))

\* int(v * 100) for v >= 0 given in thousandths.
Scale100(v) == v \div 10

\* The values the decisions assignments[(f_idx, c_idx)] of one flight can
\* take: row[c_idx] for every crew (indices are 1-based here).
Rows(cr) == [1 .. Len(cr) -> {0, 1}]

----------------------------------------------------------------------------
(* The constraint model, one operator per constraint block. *)

\* Variant of Coverage with the equality written as an upper bound.
CoverageAtMostOne(cr, row) ==
    SumSeq([c \in 1 .. Len(cr) |-> row[c]]) <= 1

\* Constraint 1: each flight must be assigned to exactly one crew.
\* (stated on the decisions of one flight, x[f_idx])
Coverage(cr, row) ==
    SumSeq([c \in 1 .. Len(cr) |-> row[c]]) = 1

\* Variant of DutyOK with the durations scaled by 10 and the limit by 100.
DutyOKWrongScale(fl, cr, md, x) ==
    \A c \in 1 .. Len(cr) :
        SumSeq([f \in 1 .. Len(fl) |-> x[f][c] * (fl[f].duration \div 100)])
            <= Scale100(md)

\* Constraint 2: maximum duty hours per crew, on the x100 integers.
DutyOK(fl, cr, md, x) ==
    \A c \in 1 .. Len(cr) :
        SumSeq([f \in 1 .. Len(fl) |-> x[f][c] * Scale100(fl[f].duration)])
            <= Scale100(md)

\* Variant of CountOK that is off by one.
CountOKOffByOne(fl, cr, mf, x) ==
    \A c \in 1 .. Len(cr) :
        SumSeq([f \in 1 .. Len(fl) |-> x[f][c]]) <= mf + 1

\* Constraint 3: maximum flights per crew.
CountOK(fl, cr, mf, x) ==
    \A c \in 1 .. Len(cr) :
        SumSeq([f \in 1 .. Len(fl) |-> x[f][c]]) <= mf

\* Variant of Overlap that leaves the rest time out.
OverlapNoRest(f1, f2, mr) ==
    LET f1_end == f1.start + f1.duration
        f2_end == f2.start + f2.duration
    IN  ~ (f1_end <= f2.start \/ f2_end <= f1.start)

\* The condition of line 179 under which a pair gets an exclusion constraint.
Overlap(f1, f2, mr) ==
    LET f1_end == f1.start + f1.duration
        f2_end == f2.start + f2.duration
    IN  ~ (f1_end + mr <= f2.start \/ f2_end + mr <= f1.start)

\* Constraint 4: no overlapping flights for the same crew (with rest time).
NoOverlap(fl, cr, mr, x) ==
    \A c \in 1 .. Len(cr) :
        \A f1_idx \in 1 .. Len(fl) :
            \A f2_idx \in (f1_idx + 1) .. Len(fl) :
                Overlap(fl[f1_idx], fl[f2_idx], mr)
                    => x[f1_idx][c] + x[f2_idx][c] <= 1

\* Variant of Objective whose first term scores 10 for every crew that has
\* at least one flight.
ObjectiveBalanced(fl, cr, x) ==
    LET crew_flights(c) == SumSeq([f \in 1 .. Len(fl) |-> x[f][c]])
        utilization == SumSeq([c \in 1 .. Len(cr) |->
                           IF crew_flights(c) > 0 THEN 10 ELSE 0])
        bonus == SumSeq([f \in 1 .. Len(fl) |->
                     SumSeq([c \in 1 .. Len(cr) |->
                         x[f][c] * fl[f].priority * 5])])
    IN  utilization + bonus

\* The expression handed to model.Maximize.
Objective(fl, cr, x) ==
    LET crew_flights(c) == SumSeq([f \in 1 .. Len(fl) |-> x[f][c]])
        utilization == SumSeq([c \in 1 .. Len(cr) |-> crew_flights(c) * 10])
        bonus == SumSeq([f \in 1 .. Len(fl) |->
                     SumSeq([c \in 1 .. Len(cr) |->
                         x[f][c] * fl[f].priority * 5])])
    IN  utilization + bonus

\* The assignments x[f_idx][c_idx] of the boolean decisions that satisfy
\* every constraint.
FeasibleSet(fl, cr, md, mr, mf) ==
    { x \in [1 .. Len(fl) -> { row \in Rows(cr) : Coverage(cr, row) }] :
        /\ DutyOK(fl, cr, md, x)
        /\ CountOK(fl, cr, mf, x)
        /\ NoOverlap(fl, cr, mr, x) }

----------------------------------------------------------------------------
(* solver.Solve(model) with max_time_in_seconds = 10.                      *)
(* CP-SAT answers OPTIMAL with a maximizing assignment or INFEASIBLE when  *)
(* the search completes; when the time limit cuts the search off it        *)
(* answers FEASIBLE with the best assignment found so far, or UNKNOWN when *)
(* none was found.  The model built above is always well formed, so the    *)
(* solver's MODEL_INVALID answer does not arise.                           *)

NoValues == <<>>

\* The maximizing assignments among feas.
Best(fl, cr, feas) ==
    UNION { { x \in feas : Objective(fl, cr, x) = top } :
            top \in { m \in { Objective(fl, cr, x) : x \in feas } :
                        \A y \in feas : Objective(fl, cr, y) <= m } }

\* The answers the solver can give when feas is the set of assignments
\* that satisfy the constraints.
SolveOn(fl, cr, feas) ==
    IF feas = {}
    THEN { [status |-> "INFEASIBLE", values |-> NoValues],
           [status |-> "UNKNOWN", values |-> NoValues] }
    ELSE { [status |-> "OPTIMAL", values |-> x] : x \in Best(fl, cr, feas) }
         \cup { [status |-> "FEASIBLE", values |-> x] : x \in feas }
         \cup { [status |-> "UNKNOWN", values |-> NoValues] }

Solve(fl, cr, md, mr, mf) ==
    UNION { SolveOn(fl, cr, feas) : feas \in {FeasibleSet(fl, cr, md, mr, mf)} }

----------------------------------------------------------------------------
(* Extraction of the solution and of the stats. *)

\* The dictionary appended to solution for one decision that is 1.
Entry(flight, crew) ==
    [Crew |-> crew, Flight |-> flight.id, Start |-> flight.start,
     Duration |-> flight.duration, End |-> flight.start + flight.duration,
     Priority |-> flight.priority]

\* The double loop of lines 215-225 from the k-th (f_idx, c_idx) pair on,
\* f_idx outer and c_idx inner.
RECURSIVE ExtractFrom(_, _, _, _)
ExtractFrom(fl, cr, x, k) ==
    IF k > Len(fl) * Len(cr)
    THEN <<>>
    ELSE LET f == ((k - 1) \div Len(cr)) + 1
             c == ((k - 1) % Len(cr)) + 1
         IN  (IF x[f][c] = 1 THEN <<Entry(fl[f], cr[c])>> ELSE <<>>)
                 \o ExtractFrom(fl, cr, x, k + 1)

\* stats['crew_utilization'] after the loop: a key for each crew of an
\* appended entry, holding the sum of the durations of its entries.
CrewUtilization(sol) ==
    [crew \in {sol[i].Crew : i \in 1 .. Len(sol)} |->
        SumSeq([i \in 1 .. Len(sol) |->
            IF sol[i].Crew = crew THEN sol[i].Duration ELSE 0])]

\* sum(stats['crew_utilization'].values())
RECURSIVE SumValues(_, _)
SumValues(util, keys) ==
    IF keys = {} THEN 0
    ELSE LET k == CHOOSE k \in keys : TRUE
         IN  util[k] + SumValues(util, keys \ {k})

\* The violation check of lines 236-239: one per element of crews whose
\* accumulated (unscaled) hours exceed max_duty.
Violations(cr, md, util) ==
    Cardinality({ c \in 1 .. Len(cr) :
                    cr[c] \in DOMAIN util /\ util[cr[c]] > md })

\* Variant of StatusName that names every status with an assignment OPTIMAL.
StatusNameFound(st) ==
    IF st \in {"OPTIMAL", "FEASIBLE"} THEN "OPTIMAL" ELSE "INFEASIBLE"

\* The status string of line 207.
StatusName(st) ==
    IF st = "OPTIMAL" THEN "OPTIMAL"
    ELSE IF st = "FEASIBLE" THEN "FEASIBLE" ELSE "INFEASIBLE"

\* Variant of EmptyStats that counts an infeasible model as a violation.
EmptyStatsCounted(st) ==
    [status |-> StatusName(st),
     violations |-> IF st = "INFEASIBLE" THEN 1 ELSE 0,
     total_duty_hours |-> 0, crew_utilization |-> NoValues]

\* The stats dictionary as initialised at lines 206-212 (solve_time, the
\* solver's wall time, is left out: nothing reads it but a display).
EmptyStats(st) ==
    [status |-> StatusName(st), violations |-> 0,
     total_duty_hours |-> 0, crew_utilization |-> NoValues]

\* The pair (solution, stats) returned for one answer of the solver.
Extract(fl, cr, md, ans) ==
    IF ans.status \in {"OPTIMAL", "FEASIBLE"}
    THEN LET sol == ExtractFrom(fl, cr, ans.values, 1)
             util == CrewUtilization(sol)
         IN  [solution |-> sol,
              stats |-> [status |-> StatusName(ans.status),
                         violations |-> Violations(cr, md, util),
                         total_duty_hours |-> SumValues(util, DOMAIN util),
                         crew_utilization |-> util]]
    ELSE [solution |-> <<>>, stats |-> EmptyStats(ans.status)]

----------------------------------------------------------------------------
(* The instances, and the call. *)

FlightLists ==
    UNION { { [i \in 1 .. n |->
                 [id |-> FlightIds[i], start |-> t[i].start,
                  duration |-> t[i].duration, priority |-> t[i].priority]] :
              t \in [1 .. n -> FlightPool] } : n \in 1 .. MaxNumFlights }

CrewLists == { SubSeq(CREWS, 1, m) : m \in 1 .. MaxNumCrews }

NoPrevious == [status |-> "NONE", objective |-> 0]

\* None, and a value that is not None, of the session state.
None == <<>>
Some(v) == <<v>>

\* The display before the page script has run.
NotRendered ==
    [section |-> "none", status |-> "", error |-> "none",
     avg_utilization |-> None, sorted_crews |-> <<>>,
     unassigned_crews |-> <<>>, utilization_data |-> <<>>]

\* The session state and the display when no page is running.
NoPage ==
    /\ optimized_solution = None
    /\ optimization_stats = None
    /\ solved_max_duty = None
    /\ rendered = NotRendered

\* The display of the risk page before its script has run.
RiskNotRendered ==
    [panel |-> "none", index |-> None, missing |-> <<>>,
     reset_button |-> FALSE, copilot |-> "none", response |-> None,
     error |-> "none"]

\* The risk page has not been opened: lines 18-29 have not run yet, and
\* the entries hold the values those lines give them.
NoRiskPage ==
    /\ loaded_models = {}
    /\ model = "Weather Delay"
    /\ weather_delay_result = None
    /\ crew_sickness_result = None
    /\ equipment_failure_result = None
    /\ emergency_landing_result = None
    /\ copilot_response = None
    /\ last_question = ""
    /\ risk_rendered = RiskNotRendered
    /\ clicked = "none"
    /\ ran = {}

Init ==
    /\ flights \in FlightLists
    /\ crews \in CrewLists
    /\ max_duty \in MaxDutySet
    /\ min_rest \in MinRestSet
    /\ max_flights \in MaxFlightsSet
    /\ pc = "ready"
    /\ cp_status = "NONE"
    /\ values = NoValues
    /\ solution = <<>>
    /\ stats = EmptyStats("NONE")
    /\ previous = NoPrevious
    /\ NoPage
    /\ NoRiskPage

\* The body of optimize_schedule on the arguments fl, cr, md, mr, mf: the
\* solver's answer and the returned pair.
Call(fl, cr, md, mr, mf) ==
    \E ans \in Solve(fl, cr, md, mr, mf) :
        \E r \in {Extract(fl, cr, md, ans)} :
            /\ cp_status' = ans.status
            /\ values' = ans.values
            /\ solution' = r.solution
            /\ stats' = r.stats

\* Variant of optimize_schedule that also writes its solution to
\* st.session_state.
optimize_schedule_storing ==
    /\ Call(flights, crews, max_duty, min_rest, max_flights)
    /\ previous' = IF cp_status \in {"OPTIMAL", "FEASIBLE"}
                   THEN [status |-> cp_status,
                         objective |-> Objective(flights, crews, values)]
                   ELSE previous
    /\ pc' = "returned"
    /\ optimized_solution' = Some(solution')
    /\ UNCHANGED args
    /\ UNCHANGED <<optimization_stats, solved_max_duty, rendered>>
    /\ UNCHANGED risk_vars

\* One call optimize_schedule(flights, crews, max_duty, min_rest,
\* max_flights), from building the model to the return.
optimize_schedule ==
    /\ Call(flights, crews, max_duty, min_rest, max_flights)
    /\ previous' = IF cp_status \in {"OPTIMAL", "FEASIBLE"}
                   THEN [status |-> cp_status,
                         objective |-> Objective(flights, crews, values)]
                   ELSE previous
    /\ pc' = "returned"
    /\ UNCHANGED args
    /\ UNCHANGED page_vars
    /\ UNCHANGED risk_vars

Next == optimize_schedule

Spec == Init /\ [][Next]_vars

----------------------------------------------------------------------------
(* Properties of the returned solution and stats. *)

\* The last call returned status OPTIMAL or FEASIBLE.
Successful == pc = "returned" /\ stats.status \in {"OPTIMAL", "FEASIBLE"}

\* The positions of the solution list that name the crew.
EntriesOf(crew) == { i \in 1 .. Len(solution) : solution[i].Crew = crew }

\* C1: in a result with status OPTIMAL or FEASIBLE every input flight
\* appears in exactly one entry of the solution list, and every entry is
\* an input flight.
C1_EveryFlightExactlyOnce ==
    Successful =>
        /\ \A f \in 1 .. Len(flights) :
              Cardinality({ i \in 1 .. Len(solution) :
                              solution[i].Flight = flights[f].id }) = 1
        /\ \A i \in 1 .. Len(solution) :
              \E f \in 1 .. Len(flights) : solution[i].Flight = flights[f].id

\* Two flights, two crews, and the flights went to different crews.
C1_Witness ==
    /\ Successful
    /\ Len(flights) = 2
    /\ Len(solution) = 2
    /\ solution[1].Crew # solution[2].Crew

\* C2: in a result with status OPTIMAL or FEASIBLE any two distinct entries
\* of one crew are separated by the rest time, one way or the other.
C2_RestBetweenFlightsOfACrew ==
    Successful =>
        \A i, j \in 1 .. Len(solution) :
            (i # j /\ solution[i].Crew = solution[j].Crew) =>
                \/ solution[i].End + min_rest <= solution[j].Start
                \/ solution[j].End + min_rest <= solution[i].Start

\* One crew flies two flights, the second starting exactly when the rest
\* after the first ends.
C2_Witness ==
    /\ Successful
    /\ min_rest = 500
    /\ \E i, j \in 1 .. Len(solution) :
          /\ i # j
          /\ solution[i].Crew = solution[j].Crew
          /\ solution[i].End + min_rest = solution[j].Start

\* Hundredths of an hour flown by the crew, each duration truncated.
CrewHundredths(crew) ==
    SumSeq([i \in 1 .. Len(solution) |->
        IF solution[i].Crew = crew THEN solution[i].Duration \div 10 ELSE 0])

C4_AtMostMaxFlights ==
    Successful =>
        \A c \in 1 .. Len(crews) :
            Cardinality(EntriesOf(crews[c])) <= max_flights

\* Two flights with at most one flight per crew.
C4_Witness ==
    /\ Successful
    /\ max_flights = 1
    /\ Len(flights) = 2
    /\ \E c \in 1 .. Len(crews) : Cardinality(EntriesOf(crews[c])) = max_flights

\* The assignments of flights to crews, one crew index per flight, and the
\* hard constraints read on the hours themselves.
CrewChoices == [1 .. Len(flights) -> 1 .. Len(crews)]

SatisfiesConstraints(a) ==
    /\ \A c \in 1 .. Len(crews) :
          SumSeq([f \in 1 .. Len(flights) |->
              IF a[f] = c THEN flights[f].duration ELSE 0]) <= max_duty
    /\ \A c \in 1 .. Len(crews) :
          Cardinality({ f \in 1 .. Len(flights) : a[f] = c }) <= max_flights
    /\ \A f1, f2 \in 1 .. Len(flights) :
          (f1 # f2 /\ a[f1] = a[f2]) =>
              \/ flights[f1].start + flights[f1].duration + min_rest
                     <= flights[f2].start
              \/ flights[f2].start + flights[f2].duration + min_rest
                     <= flights[f1].start

Schedulable == \E a \in CrewChoices : SatisfiesConstraints(a)

\* The solver's search ran to its end.
NotCutOff == cp_status \in {"OPTIMAL", "INFEASIBLE"}

\* Scenario A: one flight (6.0, 1.0, priority 1), one crew, limits 9 / 0.5 / 4.
ScenarioA ==
    /\ Len(flights) = 1 /\ Len(crews) = 1
    /\ flights[1].start = 6000 /\ flights[1].duration = 1000
    /\ flights[1].priority = 1
    /\ max_duty = 9000 /\ min_rest = 500 /\ max_flights = 4

\* Scenario B: flights (6.0, 2.0) and (7.0, 2.0), rest 0.5, one crew.
ScenarioB ==
    /\ Len(flights) = 2 /\ Len(crews) = 1
    /\ flights[1].start = 6000 /\ flights[1].duration = 2000
    /\ flights[2].start = 7000 /\ flights[2].duration = 2000
    /\ min_rest = 500

\* C5: when the search is not cut off, the status is OPTIMAL or FEASIBLE
\* exactly when some assignment satisfies the coverage, duty-hour,
\* flight-count and rest constraints, and INFEASIBLE exactly when none
\* does; scenario A succeeds with the flight's duration as the crew's
\* hours and no violation, scenario B is INFEASIBLE.
C5_StatusTellsSchedulability ==
    (pc = "returned" /\ NotCutOff) =>
        /\ (stats.status \in {"OPTIMAL", "FEASIBLE"}) <=> Schedulable
        /\ (stats.status = "INFEASIBLE") <=> ~ Schedulable
        /\ ScenarioA =>
              /\ stats.status \in {"OPTIMAL", "FEASIBLE"}
              /\ Len(solution) = 1 /\ solution[1].Crew = crews[1]
              /\ DOMAIN stats.crew_utilization = {crews[1]}
              /\ stats.crew_utilization[crews[1]] = flights[1].duration
              /\ stats.violations = 0
        /\ ScenarioB => stats.status = "INFEASIBLE"

\* C6: with fewer crew slots (crews x max_flights) than flights the status
\* is INFEASIBLE.
C6_TooFewSlotsInfeasible ==
    (pc = "returned" /\ Len(crews) * max_flights < Len(flights)) =>
        stats.status = "INFEASIBLE"

\* Two flights that could follow each other, one crew, one flight per crew:
\* only the flight count stands in the way, and the solver proves it.
C6_Witness ==
    /\ pc = "returned"
    /\ Len(crews) * max_flights < Len(flights)
    /\ Len(flights) = 2
    /\ ~ Overlap(flights[1], flights[2], min_rest)
    /\ max_duty = 9000
    /\ cp_status = "INFEASIBLE"
    /\ stats.status = "INFEASIBLE"

\* C7: with max_duty below the duration of the shortest flight the status
\* is INFEASIBLE.
C7_DutyBelowShortestInfeasible ==
    (pc = "returned"
        /\ \A f \in 1 .. Len(flights) : max_duty < flights[f].duration) =>
        stats.status = "INFEASIBLE"

\* Scenario C: two flights that do not conflict, two crews, generous limits.
ScenarioC ==
    /\ Len(flights) = 2 /\ Len(crews) = 2
    /\ ~ Overlap(flights[1], flights[2], min_rest)
    /\ max_duty = 9000 /\ max_flights = 4

EachToADistinctCrew == << <<1, 0>>, <<0, 1>> >>
BothToOneCrew == << <<1, 0>>, <<1, 0>> >>

\* C8: when scenario C has been solved to optimality, the objective of the
\* assignment that gives each flight to a distinct crew is strictly higher
\* than that of the assignment that gives both flights to one crew.
C8_SpreadScoresHigher ==
    (pc = "returned" /\ cp_status = "OPTIMAL" /\ ScenarioC) =>
        Objective(flights, crews, EachToADistinctCrew)
            > Objective(flights, crews, BothToOneCrew)

\* C9: a call that returns OPTIMAL or FEASIBLE has the objective value of
\* the latest earlier call on the same arguments that returned OPTIMAL or
\* FEASIBLE.
C9_SameObjectiveOnRepeat ==
    (Successful /\ previous.status # "NONE") =>
        Objective(flights, crews, values) = previous.objective

\* A proven optimum followed by a cut-off search that kept both flights on
\* one crew although two crews were there.
C9_Witness ==
    /\ Successful
    /\ previous.status = "OPTIMAL"
    /\ cp_status = "FEASIBLE"
    /\ Len(crews) = 2
    /\ Len(solution) = 2
    /\ solution[1].Crew = solution[2].Crew

\* C10: a result with status OPTIMAL or FEASIBLE has no violation.
C10_NoViolationOnSuccess ==
    Successful => stats.violations = 0

----------------------------------------------------------------------------
(* The extraction and its violation count on any values of the decisions,  *)
(* as they would be read from a solver that disagrees with the model.      *)

AnyValues(fl, cr) == [1 .. Len(fl) -> Rows(cr)]

\* Lines 204-241 on a successful status and arbitrary decision values.
extract_any ==
    /\ \E st \in {"OPTIMAL", "FEASIBLE"} :
          \E x \in AnyValues(flights, crews) :
              \E r \in {Extract(flights, crews, max_duty,
                                [status |-> st, values |-> x])} :
                  /\ cp_status' = st
                  /\ values' = x
                  /\ solution' = r.solution
                  /\ stats' = r.stats
    /\ pc' = "returned"
    /\ UNCHANGED <<args, previous, page_vars, risk_vars>>

SpecExtract == Init /\ [][extract_any]_vars

\* The extracted assignment breaks a hard constraint: coverage, the duty
\* limit, the flights-per-crew limit or the rest rule.
BreaksCoverage ==
    \E f \in 1 .. Len(flights) :
        Cardinality({ i \in 1 .. Len(solution) :
                        solution[i].Flight = flights[f].id }) # 1

BreaksDutyLimit ==
    \E c \in 1 .. Len(crews) :
        SumSeq([i \in 1 .. Len(solution) |->
            IF solution[i].Crew = crews[c] THEN solution[i].Duration ELSE 0])
                > max_duty

BreaksFlightLimit ==
    \E c \in 1 .. Len(crews) : Cardinality(EntriesOf(crews[c])) > max_flights

BreaksRestRule ==
    \E i, j \in 1 .. Len(solution) :
        /\ i # j
        /\ solution[i].Crew = solution[j].Crew
        /\ ~ (\/ solution[i].End + min_rest <= solution[j].Start
              \/ solution[j].End + min_rest <= solution[i].Start)

\* C11: for an extracted assignment that breaks coverage, the duty-hour
\* limit, the flights-per-crew limit or the rest rule, the violation count
\* of the returned stats is greater than 0.
C11_EveryBrokenConstraintCounted ==
    (pc = "returned"
        /\ (BreaksCoverage \/ BreaksDutyLimit \/ BreaksFlightLimit
                \/ BreaksRestRule)) =>
        stats.violations > 0

----------------------------------------------------------------------------
(* The optimizer page.  Every interaction runs the page script once, from  *)
(* the sidebar (widgets and button handlers) to the results section.  The  *)
(* page's FLIGHTS and CREWS are the variables flights and crews, and the   *)
(* sidebar inputs max_duty_input, min_rest_input and max_flights_input are *)
(* the variables max_duty, min_rest and max_flights.  On the page,         *)
(* solution and stats hold what the latest call of optimize_schedule       *)
(* returned.                                                               *)

\* Defaults of the sidebar inputs.
MAX_DUTY_HOURS == 9000
MIN_REST_HOURS == 500
MAX_FLIGHTS_PER_CREW == 4

\* Values the sidebar inputs are set to.
MaxDutyInputs == {6000, 9000}
MinRestInputs == {500, 1000}
MaxFlightsInputs == {1, 4}

\* start / duration / priority of the flights the page's FLIGHTS is drawn
\* from: F601 and F602 of the source, which can follow each other on one
\* crew with half an hour of rest and not with a full hour.
PageFlightPool ==
    { [start |-> 6000, duration |-> 1000, priority |-> 1],
      [start |-> 7500, duration |-> 4000, priority |-> 2] }

PageFlightLists ==
    UNION { { [i \in 1 .. n |->
                 [id |-> FlightIds[i], start |-> t[i].start,
                  duration |-> t[i].duration, priority |-> t[i].priority]] :
              t \in [1 .. n -> PageFlightPool] } : n \in 1 .. MaxNumFlights }

\* A quotient of the display, kept as numerator and denominator.
Fraction(n, d) == [num |-> n, den |-> d]

\* crew_assignments.keys(): the crews of the entries of the solution.
CrewAssignmentKeys(sol) == { sol[i].Crew : i \in 1 .. Len(sol) }

\* sorted(crew_assignments.keys()); the keys are members of cr, which is in
\* ascending order.
SortedCrews(sol, cr) ==
    SelectSeq(cr, LAMBDA c : c \in CrewAssignmentKeys(sol))

\* Variant of UnassignedCrews that looks the crew up among the flight ids
\* of the solution instead of the crew keys.
UnassignedCrewsInList(sol, cr) ==
    SelectSeq(cr, LAMBDA c : c \notin { sol[i].Flight : i \in 1 .. Len(sol) })

\* unassigned_crews = [c for c in CREWS if c not in crew_assignments]
UnassignedCrews(sol, cr) ==
    SelectSeq(cr, LAMBDA c : c \notin CrewAssignmentKeys(sol))

\* utilization_data of the Crew Utilization tab.
UtilizationData(st, md_input, cr) ==
    [k \in 1 .. Len(cr) |->
        LET hours == IF cr[k] \in DOMAIN st.crew_utilization
                     THEN st.crew_utilization[cr[k]] ELSE 0
        IN  [Crew |-> cr[k], Hours |-> hours,
             Utilization |-> Fraction(hours * 100, md_input),
             Available |-> md_input - hours]]

\* The part of the script below the sidebar: the results section when both
\* session entries are not None, else the placeholder.  With an empty
\* solution list the Flight Details tab raises KeyError on
\* df_solution['Start'] and the run ends there, before the Crew Utilization
\* tab.
RenderPage(osol, ostats, md_input, cr) ==
    IF osol # None /\ ostats # None
    THEN LET sol == osol[1]
             st == ostats[1]
         IN  [section |-> "results",
              status |-> st.status,
              avg_utilization |->
                  Some(Fraction(st.total_duty_hours * 100, Len(cr) * md_input)),
              sorted_crews |-> SortedCrews(sol, cr),
              unassigned_crews |-> UnassignedCrews(sol, cr),
              error |-> IF sol = <<>> THEN "KeyError" ELSE "none",
              utilization_data |->
                  IF sol = <<>> THEN <<>>
                  ELSE UtilizationData(st, md_input, cr)]
    ELSE [section |-> "placeholder", status |-> "", avg_utilization |-> None,
          sorted_crews |-> <<>>, unassigned_crews |-> <<>>,
          error |-> "none", utilization_data |-> <<>>]

PageInit ==
    /\ flights \in PageFlightLists
    /\ crews \in CrewLists
    /\ max_duty = MAX_DUTY_HOURS
    /\ min_rest = MIN_REST_HOURS
    /\ max_flights = MAX_FLIGHTS_PER_CREW
    /\ pc = "ready"
    /\ cp_status = "NONE"
    /\ values = NoValues
    /\ solution = <<>>
    /\ stats = EmptyStats("NONE")
    /\ previous = NoPrevious
    /\ NoPage
    /\ NoRiskPage

\* A run of the script with no button clicked and no input changed.
Rerun ==
    /\ rendered' = RenderPage(optimized_solution, optimization_stats,
                              max_duty, crews)
    /\ UNCHANGED <<args, pc, cp_status, values, solution, stats, previous,
                   optimized_solution, optimization_stats, solved_max_duty>>
    /\ UNCHANGED risk_vars

\* A run after the user changed one sidebar input (every change of a
\* widget starts a run).
ChangeInputs ==
    /\ \/ /\ max_duty' \in MaxDutyInputs \ {max_duty}
          /\ UNCHANGED <<min_rest, max_flights>>
       \/ /\ min_rest' \in MinRestInputs \ {min_rest}
          /\ UNCHANGED <<max_duty, max_flights>>
       \/ /\ max_flights' \in MaxFlightsInputs \ {max_flights}
          /\ UNCHANGED <<max_duty, min_rest>>
    /\ rendered' = RenderPage(optimized_solution, optimization_stats,
                              max_duty', crews)
    /\ UNCHANGED <<flights, crews, pc, cp_status, values, solution, stats,
                   previous, optimized_solution, optimization_stats,
                   solved_max_duty, risk_vars>>

\* A run with 'Generate Schedule' clicked: the handler, then the rest of
\* the script.
Generate ==
    /\ Call(flights, crews, max_duty, min_rest, max_flights)
    /\ pc' = "returned"
    /\ optimized_solution' = Some(solution')
    /\ optimization_stats' = Some(stats')
    /\ solved_max_duty' = Some(max_duty)
    /\ rendered' = RenderPage(optimized_solution', optimization_stats',
                              max_duty, crews)
    /\ UNCHANGED <<args, previous, risk_vars>>

\* Variant of Reset that forgets the stats entry.
ResetSolutionOnly ==
    /\ optimized_solution' = None
    /\ solved_max_duty' = None
    /\ rendered' = RenderPage(optimized_solution', optimization_stats,
                              max_duty, crews)
    /\ UNCHANGED <<args, pc, cp_status, values, solution, stats, previous,
                   optimization_stats, risk_vars>>

\* A run with 'Reset' clicked: the handler and the run st.rerun() starts.
Reset ==
    /\ optimized_solution' = None
    /\ optimization_stats' = None
    /\ solved_max_duty' = None
    /\ rendered' = RenderPage(optimized_solution', optimization_stats',
                              max_duty, crews)
    /\ UNCHANGED <<args, pc, cp_status, values, solution, stats, previous,
                   risk_vars>>

PageNext == Rerun \/ ChangeInputs \/ Generate \/ Reset

SpecPage == PageInit /\ [][PageNext]_vars

----------------------------------------------------------------------------
(* Properties of the outcomes of a call. *)

\* C12: a result with status OPTIMAL or FEASIBLE and violations > 0 is an
\* internal consistency error: the call does not return it as its result,
\* and the session state does not hold it.
C12_InvalidScheduleNotSurfaced ==
    /\ ~ (/\ pc = "returned"
          /\ cp_status \in {"OPTIMAL", "FEASIBLE"}
          /\ stats.violations > 0
          /\ solution # <<>>)
    /\ ~ (/\ optimization_stats # None
          /\ optimization_stats[1].status \in {"OPTIMAL", "FEASIBLE"}
          /\ optimization_stats[1].violations > 0)

\* C14: the status is INFEASIBLE only when the solver proved that no
\* assignment exists; a search cut off before any assignment was found is
\* reported as TimedOut.
C14_InfeasibleOnlyWhenProved ==
    pc = "returned" =>
        /\ stats.status = "INFEASIBLE" => cp_status = "INFEASIBLE"
        /\ cp_status = "UNKNOWN" => stats.status = "TimedOut"

\* C15: when the search is cut off after an assignment was found, the
\* result has status FEASIBLE and its solution holds that assignment in
\* full, one entry per flight in the order of the flights; status OPTIMAL
\* is reported only when the solver answered OPTIMAL.
C15_CutOffGivesFeasibleInFull ==
    pc = "returned" =>
        /\ cp_status = "FEASIBLE" =>
              /\ stats.status = "FEASIBLE"
              /\ Len(solution) = Len(flights)
              /\ \A f \in 1 .. Len(flights) :
                    /\ solution[f].Flight = flights[f].id
                    /\ \E c \in 1 .. Len(crews) :
                          values[f][c] = 1 /\ solution[f].Crew = crews[c]
        /\ stats.status = "OPTIMAL" => cp_status = "OPTIMAL"

\* A cut-off search that had found an assignment of two flights.
C15_Witness ==
    /\ pc = "returned"
    /\ cp_status = "FEASIBLE"
    /\ Len(flights) = 2
    /\ Len(solution) = 2

\* C16: a result whose status is neither OPTIMAL nor FEASIBLE is returned
\* with an empty solution list, an empty crew_utilization, total duty
\* hours 0 and violations 0.
C16_FailureReturnsEmptyResult ==
    (pc = "returned" /\ stats.status \notin {"OPTIMAL", "FEASIBLE"}) =>
        /\ solution = <<>>
        /\ DOMAIN stats.crew_utilization = {}
        /\ stats.total_duty_hours = 0
        /\ stats.violations = 0

\* The solver proved two flights on a single crew infeasible.
C16_Witness ==
    /\ pc = "returned"
    /\ cp_status = "INFEASIBLE"
    /\ stats.status = "INFEASIBLE"
    /\ Len(flights) = 2
    /\ Len(crews) = 1

----------------------------------------------------------------------------
(* Calls on arguments that need not be well formed: a duration, max_duty   *)
(* or max_flights of 0, flights sharing an id, crews sharing an id.        *)

AnyFlightPool ==
    { [start |-> 6000, duration |-> 1000, priority |-> 1],
      [start |-> 6000, duration |-> 0, priority |-> 1] }

AnyFlightLists ==
    UNION { { [i \in 1 .. n |->
                 [id |-> FlightIds[IF same_id THEN 1 ELSE i],
                  start |-> t[i].start, duration |-> t[i].duration,
                  priority |-> t[i].priority]] :
              t \in [1 .. n -> AnyFlightPool], same_id \in BOOLEAN } :
            n \in 1 .. MaxNumFlights }

AnyCrewLists ==
    CrewLists \cup { [i \in 1 .. m |-> CREWS[1]] : m \in 2 .. MaxNumCrews }

AnyInit ==
    /\ flights \in AnyFlightLists
    /\ crews \in AnyCrewLists
    /\ max_duty \in {0} \cup MaxDutySet
    /\ min_rest \in MinRestSet
    /\ max_flights \in {0} \cup MaxFlightsSet
    /\ pc = "ready"
    /\ cp_status = "NONE"
    /\ values = NoValues
    /\ solution = <<>>
    /\ stats = EmptyStats("NONE")
    /\ previous = NoPrevious
    /\ NoPage
    /\ NoRiskPage

SpecAnyInput == AnyInit /\ [][optimize_schedule]_vars

\* The input the Instance Builder of the specification rejects.
InvalidInstance ==
    \/ \E f \in 1 .. Len(flights) : flights[f].duration <= 0
    \/ max_duty <= 0
    \/ max_flights <= 0
    \/ \E f, g \in 1 .. Len(flights) : f # g /\ flights[f].id = flights[g].id
    \/ \E c, d \in 1 .. Len(crews) : c # d /\ crews[c] = crews[d]

\* C13: on input with a duration <= 0, max_duty <= 0, max_flights <= 0,
\* duplicate flight ids or duplicate crew ids the solver is never invoked
\* and no status or solution is produced.
C13_InvalidInstanceNeverSolved ==
    InvalidInstance =>
        /\ pc = "ready"
        /\ cp_status = "NONE"
        /\ solution = <<>>

----------------------------------------------------------------------------
(* Properties of the optimizer page. *)

\* C17: while the session state holds the result of a Generate that ended
\* INFEASIBLE, every run of the page completes: the status is shown and the
\* results section does not fail on the fields of the empty solution.
C17_InfeasibleIsNotAPageError ==
    (/\ optimization_stats # None
     /\ optimization_stats[1].status = "INFEASIBLE"
     /\ rendered.section # "none") =>
        rendered.error = "none"

RECURSIVE GCD(_, _)
GCD(a, b) == IF b = 0 THEN a ELSE GCD(b, a % b)

\* A quotient in lowest terms.
Lowest(p) ==
    LET g == GCD(p.num, p.den)
    IN  [num |-> p.num \div g, den |-> p.den \div g]

\* The two quotients are the same number.
SameFraction(p, q) == Lowest(p) = Lowest(q)

\* C18: whenever the results section is displayed, the average utilization
\* is total duty hours / (number of crews x max_duty of the solve whose
\* result is stored), and each crew's utilization and available hours are
\* computed with that max_duty.
C18_UtilizationUsesSolvedMaxDuty ==
    (rendered.section = "results" /\ solved_max_duty # None) =>
        /\ SameFraction(rendered.avg_utilization[1],
               Fraction(optimization_stats[1].total_duty_hours * 100,
                        Len(crews) * solved_max_duty[1]))
        /\ \A k \in 1 .. Len(rendered.utilization_data) :
              LET row == rendered.utilization_data[k]
              IN  /\ SameFraction(row.Utilization,
                         Fraction(row.Hours * 100, solved_max_duty[1]))
                  /\ row.Available = solved_max_duty[1] - row.Hours

\* The crews that own at least one flight of the stored solution.
OwningCrews ==
    { crews[c] : c \in { c \in 1 .. Len(crews) :
        \E i \in 1 .. Len(optimized_solution[1]) :
            optimized_solution[1][i].Crew = crews[c] } }

Range(seq) == { seq[i] : i \in 1 .. Len(seq) }

\* C19: whenever the results section is displayed, the unassigned crews
\* are exactly the crews of CREWS that own no flight of the stored
\* solution; the crews shown with assignments and the unassigned crews are
\* disjoint and together are CREWS.
C19_UnassignedAreTheIdleCrews ==
    rendered.section = "results" =>
        /\ Range(rendered.unassigned_crews) = Range(crews) \ OwningCrews
        /\ Range(rendered.sorted_crews) = OwningCrews
        /\ Range(rendered.sorted_crews)
               \cap Range(rendered.unassigned_crews) = {}
        /\ Range(rendered.sorted_crews)
               \cup Range(rendered.unassigned_crews) = Range(crews)

\* Two crews, and both flights of the stored solution are on one of them.
C19_Witness ==
    /\ rendered.section = "results"
    /\ Len(crews) = 2
    /\ Len(rendered.sorted_crews) = 1
    /\ Len(rendered.unassigned_crews) = 1
    /\ Len(optimized_solution[1]) = 2

\* C20: the two session entries are None before the first Generate, and
\* at any time they are both None or they are the solution and the stats
\* the latest call of optimize_schedule returned.
C20_SessionHoldsLatestResultAsAPair ==
    /\ pc = "ready" =>
          (optimized_solution = None /\ optimization_stats = None)
    /\ \/ optimized_solution = None /\ optimization_stats = None
       \/ /\ pc = "returned"
          /\ optimized_solution = Some(solution)
          /\ optimization_stats = Some(stats)

\* A Reset after a Generate: a call has returned, and both entries are None.
C20_Witness ==
    /\ pc = "returned"
    /\ solution # <<>>
    /\ optimized_solution = None
    /\ optimization_stats = None
    /\ rendered.section = "placeholder"

----------------------------------------------------------------------------
(* The frame of a call. *)

----------------------------------------------------------------------------
(* Repeated rendering of the results section. *)

\* Per-crew hours as the Crew Utilization tab lists them.
HoursShown(r) ==
    [k \in 1 .. Len(r.utilization_data) |->
        [Crew |-> r.utilization_data[k].Crew,
         Hours |-> r.utilization_data[k].Hours]]

\* C22: two consecutive runs of the page that display the results section
\* from the same stored solution and stats show the same crews with
\* assignments, per-crew hours, average utilization and unassigned crews,
\* and a run that only renders leaves the stored solution and stats as
\* they were.
C22_SameMetricsFromSameStoredResult ==
    [][/\ (Rerun \/ ChangeInputs) =>
              /\ optimized_solution' = optimized_solution
              /\ optimization_stats' = optimization_stats
       /\ (/\ optimized_solution' = optimized_solution
           /\ optimization_stats' = optimization_stats
           /\ rendered.section = "results"
           /\ rendered'.section = "results") =>
              /\ rendered'.sorted_crews = rendered.sorted_crews
              /\ rendered'.unassigned_crews = rendered.unassigned_crews
              /\ HoursShown(rendered') = HoursShown(rendered)
              /\ SameFraction(rendered'.avg_utilization[1],
                              rendered.avg_utilization[1])]_vars

----------------------------------------------------------------------------
(* The risk page, src/pages/1_Risk_Predictions.py.  One action is one run *)
(* of the script, started by one interaction of the user.  A button is    *)
(* True only in the run its click started, and only when that run         *)
(* reaches its st.button call.  Percentages are integers.                 *)

Predictions ==
    {"Weather Delay", "Crew Sickness", "Equipment Failure",
     "Emergency Landing Risk"}

\* The options of the radio, lines 258-268.
ModelOptions == Predictions \cup {"Operational Risk Index"}

\* Predicted delays in minutes and predicted probabilities in percent.
DelayMinutes == {18, 162}
Percentages == {20, 90}

\* Questions typed into the copilot's text input ("" is no question).
Questions == {"", "Why is the operational risk high?"}

Min(a, b) == IF a <= b THEN a ELSE b

\* The dictionaries stored by the four prediction branches.
WeatherResult(d) ==
    [delay_minutes |-> d, risk_percentage |-> Min(100, (d * 100) \div 180)]
CrewResult(p) == [probability |-> p]
EquipmentResult(p) == [failure_probability |-> p]
EmergencyResult(p) == [emergency_probability |-> p]

\* build_runtime_analysis()
build_runtime_analysis(w, c, e, em) ==
    [weather_delay |-> w, crew_sickness |-> c, equipment_failure |-> e,
     emergency_landing |-> em]

\* Variant of MissingPredictions that names the wrong prediction when the
\* equipment result is missing.
MissingPredictionsMisnamed(w, c, e, em) ==
    (IF w = None THEN <<"Weather Delay">> ELSE <<>>)
    \o (IF c = None THEN <<"Crew Sickness">> ELSE <<>>)
    \o (IF e = None THEN <<"Emergency Landing Risk">> ELSE <<>>)
    \o (IF em = None THEN <<"Emergency Landing Risk">> ELSE <<>>)

\* missing_predictions of the Operational Risk Index branch.
MissingPredictions(w, c, e, em) ==
    (IF w = None THEN <<"Weather Delay">> ELSE <<>>)
    \o (IF c = None THEN <<"Crew Sickness">> ELSE <<>>)
    \o (IF e = None THEN <<"Equipment Failure">> ELSE <<>>)
    \o (IF em = None THEN <<"Emergency Landing Risk">> ELSE <<>>)

\* operational_risk: the weights 0.25, 0.20, 0.30, 0.20 and the baseline
\* traffic density 50 with weight 0.05, in hundredths.
operational_risk(w, c, e, em) ==
    (25 * w.risk_percentage + 20 * c.probability
       + 30 * e.failure_probability + 20 * em.emergency_probability
       + 5 * 50) \div 100

\* The results panel of a run: nothing but the platform text when the run
\* button was not clicked in this run; the branch of the selected model
\* otherwise.  The 'Reset All Predictions' button exists only in the
\* branch that shows the index.
ResultsPanel(run, m, w, c, e, em) ==
    IF ~run
    THEN [panel |-> "about", index |-> None, missing |-> <<>>,
          reset_button |-> FALSE]
    ELSE IF m # "Operational Risk Index"
    THEN [panel |-> "prediction", index |-> None, missing |-> <<>>,
          reset_button |-> FALSE]
    ELSE IF MissingPredictions(w, c, e, em) # <<>>
    THEN [panel |-> "missing", index |-> None,
          missing |-> MissingPredictions(w, c, e, em),
          reset_button |-> FALSE]
    ELSE [panel |-> "index",
          index |-> Some(operational_risk(w[1], c[1], e[1], em[1])),
          missing |-> <<>>, reset_button |-> TRUE]

\* The copilot section of a run: the question box, the buttons and the
\* stored response when at least one prediction is stored.
CopilotSection(w, c, e, em, resp) ==
    IF \E v \in {w, c, e, em} : v # None
    THEN [copilot |-> "shown", response |-> resp]
    ELSE [copilot |-> "hidden", response |-> None]

\* What a run that reaches the end of the script displays.
RenderRisk(run, m, w, c, e, em, resp) ==
    LET p == ResultsPanel(run, m, w, c, e, em)
        a == CopilotSection(w, c, e, em, resp)
    IN  [panel |-> p.panel, index |-> p.index, missing |-> p.missing,
         reset_button |-> p.reset_button, copilot |-> a.copilot,
         response |-> a.response, error |-> "none"]

\* What a run displays that ends in the results panel with an uncaught
\* exception.
RenderAborted(err) ==
    [panel |-> "error", index |-> None, missing |-> <<>>,
     reset_button |-> FALSE, copilot |-> "none", response |-> None,
     error |-> err]

\* The optimizer is another page: its state is fixed while the risk page
\* runs.
schedule_vars ==
    <<args, pc, cp_status, values, solution, stats, previous, page_vars>>

session_results ==
    <<weather_delay_result, crew_sickness_result, equipment_failure_result,
      emergency_landing_result>>

\* The page after its first run: any of the model files may be absent.
RiskInit ==
    /\ flights = <<[id |-> FlightIds[1], start |-> 6000, duration |-> 1000,
                    priority |-> 1]>>
    /\ crews = SubSeq(CREWS, 1, 1)
    /\ max_duty = MAX_DUTY_HOURS
    /\ min_rest = MIN_REST_HOURS
    /\ max_flights = MAX_FLIGHTS_PER_CREW
    /\ pc = "ready"
    /\ cp_status = "NONE"
    /\ values = NoValues
    /\ solution = <<>>
    /\ stats = EmptyStats("NONE")
    /\ previous = NoPrevious
    /\ NoPage
    /\ loaded_models \in SUBSET Predictions
    /\ model = "Weather Delay"
    /\ weather_delay_result = None
    /\ crew_sickness_result = None
    /\ equipment_failure_result = None
    /\ emergency_landing_result = None
    /\ copilot_response = None
    /\ last_question = ""
    /\ risk_rendered = RenderRisk(FALSE, model, None, None, None, None, None)
    /\ clicked = "none"
    /\ ran = {}

\* A run after the user selected another option of the radio.
SelectModel ==
    /\ model' \in ModelOptions \ {model}
    /\ risk_rendered' = RenderRisk(FALSE, model', weather_delay_result,
           crew_sickness_result, equipment_failure_result,
           emergency_landing_result, copilot_response)
    /\ clicked' = "none"
    /\ UNCHANGED <<loaded_models, session_results, copilot_response,
                   last_question, ran, schedule_vars>>

\* A run with 'Run Prediction' clicked.  The Weather, Crew and Emergency
\* branches compute a value with the loaded model or, without it, by the
\* simulation formula, and store it.  The Equipment branch has no
\* simulation branch: without the loaded models failure_probability is
\* unbound at line 600 and the run ends with NameError before the store.
RunPrediction ==
    /\ model # "Operational Risk Index"
    /\ clicked' = "Run Prediction"
    /\ ran' = ran \cup {model}
    /\ \/ /\ model = "Weather Delay"
          /\ \E d \in DelayMinutes :
                weather_delay_result' = Some(WeatherResult(d))
          /\ UNCHANGED <<crew_sickness_result, equipment_failure_result,
                         emergency_landing_result>>
       \/ /\ model = "Crew Sickness"
          /\ \E p \in Percentages :
                crew_sickness_result' = Some(CrewResult(p))
          /\ UNCHANGED <<weather_delay_result, equipment_failure_result,
                         emergency_landing_result>>
       \/ /\ model = "Equipment Failure"
          /\ model \in loaded_models
          /\ \E p \in Percentages :
                equipment_failure_result' = Some(EquipmentResult(p))
          /\ UNCHANGED <<weather_delay_result, crew_sickness_result,
                         emergency_landing_result>>
       \/ /\ model = "Equipment Failure"
          /\ model \notin loaded_models
          /\ UNCHANGED session_results
       \/ /\ model = "Emergency Landing Risk"
          /\ \E p \in Percentages :
                emergency_landing_result' = Some(EmergencyResult(p))
          /\ UNCHANGED <<weather_delay_result, crew_sickness_result,
                         equipment_failure_result>>
    /\ risk_rendered' =
          IF model = "Equipment Failure" /\ model \notin loaded_models
          THEN RenderAborted("NameError")
          ELSE RenderRisk(TRUE, model, weather_delay_result',
                   crew_sickness_result', equipment_failure_result',
                   emergency_landing_result', copilot_response)
    /\ UNCHANGED <<loaded_models, model, copilot_response, last_question,
                   schedule_vars>>

\* A run with 'Calculate Operational Risk' clicked.
CalculateOperationalRisk ==
    /\ model = "Operational Risk Index"
    /\ clicked' = "Calculate Operational Risk"
    /\ risk_rendered' = RenderRisk(TRUE, model, weather_delay_result,
           crew_sickness_result, equipment_failure_result,
           emergency_landing_result, copilot_response)
    /\ UNCHANGED <<loaded_models, model, session_results, copilot_response,
                   last_question, ran, schedule_vars>>

\* A run started by a click on 'Reset All Predictions'.  In this run
\* 'Calculate Operational Risk' was not clicked, so st.button at line 424
\* returns False, the branch of line 428 is not taken and line 867 with
\* the handler below it is not reached.
ResetAllPredictions ==
    /\ risk_rendered.reset_button
    /\ clicked' = "Reset All Predictions"
    /\ risk_rendered' = RenderRisk(FALSE, model, weather_delay_result,
           crew_sickness_result, equipment_failure_result,
           emergency_landing_result, copilot_response)
    /\ UNCHANGED <<loaded_models, model, session_results, copilot_response,
                   last_question, ran, schedule_vars>>

\* A run with 'Ask Phi-3 Copilot' clicked and q in the text input.  The
\* text of the answer is represented by the analysis it was asked about.
AskCopilot ==
    /\ risk_rendered.copilot = "shown"
    /\ clicked' = "Ask Phi-3 Copilot"
    /\ \E q \in Questions :
          IF q = ""
          THEN UNCHANGED <<copilot_response, last_question>>
          ELSE /\ last_question' = q
               /\ copilot_response' =
                     Some(build_runtime_analysis(weather_delay_result,
                              crew_sickness_result, equipment_failure_result,
                              emergency_landing_result))
    /\ risk_rendered' = RenderRisk(FALSE, model, weather_delay_result,
           crew_sickness_result, equipment_failure_result,
           emergency_landing_result, copilot_response')
    /\ UNCHANGED <<loaded_models, model, session_results, ran,
                   schedule_vars>>

\* A run with 'Clear' clicked, and the run st.rerun() starts.
ClearCopilot ==
    /\ risk_rendered.copilot = "shown"
    /\ clicked' = "Clear"
    /\ copilot_response' = None
    /\ last_question' = ""
    /\ risk_rendered' = RenderRisk(FALSE, model, weather_delay_result,
           crew_sickness_result, equipment_failure_result,
           emergency_landing_result, copilot_response')
    /\ UNCHANGED <<loaded_models, model, session_results, ran,
                   schedule_vars>>

RiskNext ==
    \/ SelectModel
    \/ RunPrediction
    \/ CalculateOperationalRisk
    \/ ResetAllPredictions
    \/ AskCopilot
    \/ ClearCopilot

SpecRisk == RiskInit /\ [][RiskNext]_vars

----------------------------------------------------------------------------
(* Properties of the risk page. *)

\* The predictions whose stored result is None.
NotStored ==
    {p \in Predictions :
        \/ p = "Weather Delay" /\ weather_delay_result = None
        \/ p = "Crew Sickness" /\ crew_sickness_result = None
        \/ p = "Equipment Failure" /\ equipment_failure_result = None
        \/ p = "Emergency Landing Risk" /\ emergency_landing_result = None}

\* C23: the run of 'Calculate Operational Risk' shows the index exactly
\* when none of the four stored results is None; otherwise it computes no
\* index and the missing predictions it lists are exactly those whose
\* stored result is None.  No other run shows an index.
C23_IndexOnlyFromAllFourResults ==
    /\ risk_rendered.index # None =>
          (NotStored = {} /\ clicked = "Calculate Operational Risk")
    /\ clicked = "Calculate Operational Risk" =>
          IF NotStored = {}
          THEN risk_rendered.panel = "index" /\ risk_rendered.index # None
          ELSE /\ risk_rendered.panel = "missing"
               /\ risk_rendered.index = None
               /\ Range(risk_rendered.missing) = NotStored
               /\ Len(risk_rendered.missing) = Cardinality(NotStored)

\* The index was calculated from four stored results.
C23_Witness ==
    /\ clicked = "Calculate Operational Risk"
    /\ risk_rendered.index # None
    /\ NotStored = {}

\* The calculation was refused with the equipment result missing and the
\* emergency result stored.
C23_WitnessMissing ==
    /\ clicked = "Calculate Operational Risk"
    /\ risk_rendered.panel = "missing"
    /\ equipment_failure_result = None
    /\ emergency_landing_result # None

\* C24: once 'Run Prediction' has been clicked for each of the four
\* predictions, all four results are stored, and a 'Calculate Operational
\* Risk' after that shows the risk score, whichever model files are
\* present.
C24_FourRunsGiveTheIndex ==
    ran = Predictions =>
        /\ NotStored = {}
        /\ clicked = "Calculate Operational Risk" =>
              risk_rendered.panel = "index"

\* C25: a copilot response that is displayed was generated from the
\* prediction results now stored in the session state.
C25_ResponseIsAboutStoredResults ==
    risk_rendered.response # None =>
        risk_rendered.response[1] =
            build_runtime_analysis(weather_delay_result,
                crew_sickness_result, equipment_failure_result,
                emergency_landing_result)

\* C30: in the state reached by a click on 'Reset All Predictions' the
\* four stored results and the copilot response are None and the last
\* question is the empty string.
C30_ResetAllRestoresInitialValues ==
    clicked = "Reset All Predictions" =>
        /\ weather_delay_result = None
        /\ crew_sickness_result = None
        /\ equipment_failure_result = None
        /\ emergency_landing_result = None
        /\ copilot_response = None
        /\ last_question = ""

----------------------------------------------------------------------------
(* Properties of the constraint model and of the statistics. *)

\* The decisions that put exactly the flights of S on the first crew.
OnFirstCrew(S) ==
    [f \in 1 .. Len(flights) |->
        [c \in 1 .. Len(crews) |-> IF f \in S /\ c = 1 THEN 1 ELSE 0]]

\* The true total of the durations of the flights of S.
TrueTotal(S) ==
    SumSeq([f \in 1 .. Len(flights) |->
               IF f \in S THEN flights[f].duration ELSE 0])

\* C26: for every set of flights, the x100 duty constraint accepts the set
\* on a crew exactly when the true sum of the durations is at most
\* max_duty.
C26_FixedPointComparisonExact ==
    \A S \in SUBSET (1 .. Len(flights)) :
        DutyOK(flights, crews, max_duty, OnFirstCrew(S))
            <=> TrueTotal(S) <= max_duty

\* The decisions that put exactly the flights i and j on the crew c.
OnlyPair(i, j, c) ==
    [f \in 1 .. Len(flights) |->
        [d \in 1 .. Len(crews) |-> IF f \in {i, j} /\ d = c THEN 1 ELSE 0]]

\* The constraint model rejects the flights i and j together on the crew c.
PairForbidden(i, j, c) ==
    ~ NoOverlap(flights, crews, min_rest, OnlyPair(i, j, c))

EndOf(f) == flights[f].start + flights[f].duration

\* C27: the model forbids two distinct flights on a crew exactly when
\* neither ends, rest included, by the start of the other; the answer is
\* the same for every crew and for both orders of the pair, and a pair
\* whose first flight ends, rest included, exactly at the start of the
\* second is not forbidden.
C27_ForbiddenPairsAreTheConflicts ==
    \A i, j \in 1 .. Len(flights) :
        i # j =>
            \A c \in 1 .. Len(crews) :
                /\ PairForbidden(i, j, c)
                      <=> ~ (\/ EndOf(i) + min_rest <= flights[j].start
                             \/ EndOf(j) + min_rest <= flights[i].start)
                /\ PairForbidden(i, j, c) <=> PairForbidden(j, i, c)
                /\ \A d \in 1 .. Len(crews) :
                      PairForbidden(i, j, c) <=> PairForbidden(i, j, d)
                /\ EndOf(i) + min_rest = flights[j].start
                      => ~ PairForbidden(i, j, c)

\* A returned schedule has one crew fly two flights, the second starting
\* exactly when the first has ended and the rest is over.
C27_Witness ==
    /\ Successful
    /\ Len(flights) = 2
    /\ min_rest = 500
    /\ EndOf(1) + min_rest = flights[2].start
    /\ solution[1].Crew = solution[2].Crew

\* The assignments that satisfy the coverage constraint.
Covering ==
    [1 .. Len(flights) -> { row \in Rows(crews) : Coverage(crews, row) }]

C29_UtilizationAddsUp ==
    Successful =>
        /\ SumValues(stats.crew_utilization, DOMAIN stats.crew_utilization)
               = stats.total_duty_hours
        /\ stats.total_duty_hours
               = SumSeq([f \in 1 .. Len(flights) |-> flights[f].duration])
        /\ DOMAIN stats.crew_utilization
               = { solution[i].Crew : i \in 1 .. Len(solution) }

\* Two crews, two flights of different durations, one flight each.
C29_Witness ==
    /\ Successful
    /\ Len(crews) = 2
    /\ Len(solution) = 2
    /\ solution[1].Crew # solution[2].Crew
    /\ solution[1].Duration # solution[2].Duration

====
